---- MODULE Spec2Model ----
(***************************************************************************)
(* A model of the reading-plan generator: utils/utils.py (split) and       *)
(* utils/generator.py (get_day_reading_text, generate_plan, process_meta). *)
(*                                                                         *)
(* Python values are modelled as follows.                                  *)
(*   - A list is a sequence; Python's 0-based index k is element k + 1.    *)
(*   - A call that can raise returns a record whose field err names the    *)
(*     exception ("none" when it returns normally).                        *)
(*   - A reading text is the sequence of the pieces the f-strings          *)
(*     concatenate ("Alpha", " ", "1", "-", "4", "; ", ...); Str joins     *)
(*     them into the string itself.                                        *)
(*   - A date is the number of days after the start date.                  *)
(*   - The books' verse counts play no part in the plan and are left out.  *)
(***************************************************************************)
EXTENDS Integers, Sequences, FiniteSets, TLC

VARIABLES
    pc,                \* position in the running function
    meta,              \* list of books, each [name, chapters]
    duration,          \* number of days asked for (split's n)
    chapters,          \* total number of chapters (split's x)
    write,             \* generate_plan's write flag
    chapters_per_day,  \* the per-day quotas
    opened,            \* whether the CSV sink (file or StringIO) was created
    csvf,              \* the rows written to the CSV sink so far
    b,                 \* index of the current book (0-based)
    curr_book,         \* the current book record
    curr_chapter,      \* next chapter to read in the current book (1-based)
    curr_day,          \* date of the day being rendered
    i,                 \* index of the day being rendered (0-based)
    day_readings,      \* text of the day rendered last
    calls,             \* recursive calls made for the day rendered last
    plan_csv,          \* generate_plan's return value
    err                \* the exception that ended the run, "none" otherwise

vars == <<pc, meta, duration, chapters, write, chapters_per_day, opened, csvf,
          b, curr_book, curr_chapter, curr_day, i, day_readings, calls,
          plan_csv, err>>

----------------------------------------------------------------------------
(* Bounds of the model. *)

MaxUnits == 6          \* Spec: total capacity of the books
MaxDuration == 7       \* Spec: largest number of days asked for
MaxChapters == 7       \* Spec: largest total passed to generate_plan directly
MaxNeg == 1            \* Spec, SpecSplit: how far below zero inputs go
MaxX == 15             \* SpecSplit: largest x
MaxN == 9              \* SpecSplit: largest n
MaxRenderUnits == 8    \* SpecRender: total capacity of the books

----------------------------------------------------------------------------
(* Python arithmetic. *)

Abs(v) == IF v < 0 THEN -v ELSE v

\* x // n, floor division, for n # 0
PyFloorDiv(x, n) == IF n > 0 THEN x \div n ELSE (-x) \div (-n)

\* x % n, the sign of the result follows n, for n # 0
PyMod(x, n) == x - n * PyFloorDiv(x, n)

\* int(a / c): true division truncated toward zero, for c > 0; the float
\* quotient is exact for the values modelled (below 2^53)
PyTruncDiv(a, c) == IF a >= 0 THEN a \div c ELSE -((-a) \div c)

RECURSIVE Gcd(_, _)
Gcd(a, c) == IF c = 0 THEN a ELSE Gcd(c, a % c)

\* math.gcd
MathGcd(a, c) == Gcd(Abs(a), Abs(c))

RECURSIVE Sum(_)
Sum(s) == IF Len(s) = 0 THEN 0 ELSE Head(s) + Sum(Tail(s))

----------------------------------------------------------------------------
(* utils/utils.py: split *)

\* for _ in range(k): out.append(v)
RECURSIVE AppendCopies(_, _, _)
AppendCopies(out, v, k) ==
    IF k <= 0 THEN out ELSE AppendCopies(Append(out, v), v, k - 1)

\* for l in range(k): out.append(pp); out.append(pp + 1)
RECURSIVE AppendPairs(_, _, _)
AppendPairs(out, pp, k) ==
    IF k <= 0 THEN out
    ELSE AppendPairs(Append(Append(out, pp), pp + 1), pp, k - 1)

\* A faulty SplitBlock: the leftover of the else branch is filled with the
\* large size instead of the small one.
SplitBlockWrongFill(out, pp, hi, lo) ==
    IF hi > lo
    THEN AppendCopies(AppendPairs(out, pp, lo), pp + 1, hi - lo)
    ELSE AppendCopies(AppendPairs(out, pp, hi), pp + 1, lo - hi)

\* A faulty SplitBlock: the textbook order, all small parts, then all large.
SplitBlockGrouped(out, pp, hi, lo) ==
    AppendCopies(AppendCopies(out, pp, lo), pp + 1, hi)

\* One pass of the while loop's body: lines 53-64
SplitBlock(out, pp, hi, lo) ==
    IF hi > lo
    THEN AppendCopies(AppendPairs(out, pp, lo), pp + 1, hi - lo)
    ELSE AppendCopies(AppendPairs(out, pp, hi), pp, lo - hi)

\* A faulty SplitLoop: the loop makes one pass more.
RECURSIVE SplitLoopExtraPass(_, _, _, _, _, _)
SplitLoopExtraPass(k, n, out, pp, hi, lo) ==
    IF k <= n
    THEN SplitLoopExtraPass(k + lo + hi, n, SplitBlock(out, pp, hi, lo), pp, hi, lo)
    ELSE out

\* while i < n: ...; i += lo + hi
RECURSIVE SplitLoop(_, _, _, _, _, _)
SplitLoop(k, n, out, pp, hi, lo) ==
    IF k < n
    THEN SplitLoop(k + lo + hi, n, SplitBlock(out, pp, hi, lo), pp, hi, lo)
    ELSE out

split(x, n) ==
    IF x < n THEN [err |-> "ValueError", out |-> <<>>]
    ELSE IF n = 0 THEN [err |-> "ZeroDivisionError", out |-> <<>>]
    ELSE IF PyMod(x, n) = 0
    THEN [err |-> "none", out |-> AppendCopies(<<>>, PyFloorDiv(x, n), n)]
    ELSE LET zp == n - PyMod(x, n)
             pp == PyFloorDiv(x, n)
             high == n - zp
             cd == IF high > zp THEN MathGcd(high, zp) ELSE MathGcd(zp, high)
             hi == PyTruncDiv(high, cd)
             lo == PyTruncDiv(zp, cd)
         IN  [err |-> "none", out |-> SplitLoop(0, n, <<>>, pp, hi, lo)]

----------------------------------------------------------------------------
(* The inputs. *)

BookNames == <<"Alpha", "Beta", "Gamma", "Delta", "Epsilon", "Zeta", "Eta",
               "Theta", "Iota", "Kappa">>

BookName(k) == IF k <= Len(BookNames) THEN BookNames[k]
               ELSE "Book" \o ToString(k)

\* the sequences of integers >= 1 that sum to t
RECURSIVE Compositions(_)
Compositions(t) ==
    IF t = 0 THEN {<<>>}
    ELSE UNION {{<<k>> \o s : s \in Compositions(t - k)} : k \in 1..t}

\* the book list with the given chapter counts
MetaOf(caps) == [k \in 1..Len(caps) |-> [name |-> BookName(k), chapters |-> caps[k]]]

Metas(maxUnits) == {MetaOf(caps) : caps \in UNION {Compositions(t) : t \in 0..maxUnits}}

NoBook == [name |-> "", chapters |-> 0]
NoPlan == [message |-> "", rows |-> <<>>]

\* the locals of generate_plan before they are assigned
Unset == /\ opened = FALSE
         /\ csvf = <<>>
         /\ b = 0
         /\ curr_book = NoBook
         /\ curr_chapter = 0
         /\ curr_day = 0
         /\ i = 0
         /\ day_readings = <<>>
         /\ calls = 0
         /\ plan_csv = NoPlan
         /\ err = "none"

----------------------------------------------------------------------------
(* utils/generator.py: get_day_reading_text *)

\* A faulty WithinText: a one-chapter day is written as a range too.
WithinTextAlwaysRange(book, chapter, day) ==
    <<book.name, " ", ToString(chapter), "-", ToString(chapter + day - 1)>>

\* lines 130-134: the day ends inside the book
WithinText(book, chapter, day) ==
    <<book.name, " ">> \o
    (IF day # 1
     THEN <<ToString(chapter), "-", ToString(chapter + day - 1)>>
     ELSE <<ToString(chapter)>>)

\* lines 137-141: the day reads the book to its end and goes on
RolloverText(book, chapter) ==
    <<book.name, " ">> \o
    (IF chapter # book.chapters
     THEN <<ToString(chapter), "-", ToString(book.chapters), "; ">>
     ELSE <<ToString(chapter), "; ">>)

\* A faulty RemainingAfter: the chapter the day starts on is not counted.
RemainingAfterLong(book, chapter, day) == day - (book.chapters - chapter)

\* line 145: the chapters of the day left for the next books
RemainingAfter(book, chapter, day) == day - (book.chapters - chapter) - 1

\* bk is the book index b, chapter is curr_chapter. The result is the text,
\* the exception raised by meta[b] (line 125) if any, and the number of
\* recursive calls made (line 144).
RECURSIVE get_day_reading_text(_, _, _, _)
get_day_reading_text(m, bk, chapter, day) ==
    IF bk >= Len(m) THEN [err |-> "IndexError", text |-> <<>>, calls |-> 0]
    ELSE LET book == m[bk + 1] IN
        IF chapter + day - 1 <= book.chapters
        THEN [err |-> "none", calls |-> 0, text |-> WithinText(book, chapter, day)]
        ELSE LET rest == get_day_reading_text(m, bk + 1, 1,
                                              RemainingAfter(book, chapter, day))
             IN  [err |-> rest.err, calls |-> rest.calls + 1,
                  text |-> IF rest.err # "none" THEN <<>>
                           ELSE RolloverText(book, chapter) \o rest.text]

----------------------------------------------------------------------------
(* utils/generator.py: generate_plan and process_meta *)

\* A faulty Fallback: one chapter a day for the number of days asked for.
FallbackDuration(x, n) == AppendCopies(<<>>, 1, n)

\* [1 for _ in range(chapters)], line 170
Fallback(x, n) == AppendCopies(<<>>, 1, x)

\* A faulty AdvanceLoop: the book is left one chapter early.
RECURSIVE AdvanceLoopEarly(_, _)
AdvanceLoopEarly(m, c) ==
    IF c.curr_chapter >= c.curr_book.chapters
    THEN IF c.b + 1 >= Len(m)
         THEN [c EXCEPT !.b = c.b + 1,
                        !.curr_chapter = c.curr_chapter - c.curr_book.chapters,
                        !.err = "IndexError"]
         ELSE AdvanceLoopEarly(m, [c EXCEPT
                        !.b = c.b + 1,
                        !.curr_chapter = c.curr_chapter - c.curr_book.chapters,
                        !.curr_book = m[c.b + 2]])
    ELSE c

\* A faulty AdvanceLoop: the next book is entered at chapter 1 whatever is
\* carried over.
RECURSIVE AdvanceLoopReset(_, _)
AdvanceLoopReset(m, c) ==
    IF c.curr_chapter > c.curr_book.chapters
    THEN IF c.b + 1 >= Len(m)
         THEN [c EXCEPT !.b = c.b + 1, !.curr_chapter = 1, !.err = "IndexError"]
         ELSE AdvanceLoopReset(m, [c EXCEPT !.b = c.b + 1, !.curr_chapter = 1,
                                            !.curr_book = m[c.b + 2]])
    ELSE c

\* while curr_chapter > curr_book["chapters"]: ..., lines 193-196, on the
\* cursor c = [b, curr_book, curr_chapter, err]; meta[b] raises at the end
\* of the book list, after b and curr_chapter were assigned.
RECURSIVE AdvanceLoop(_, _)
AdvanceLoop(m, c) ==
    IF c.curr_chapter > c.curr_book.chapters
    THEN IF c.b + 1 >= Len(m)
         THEN [c EXCEPT !.b = c.b + 1,
                        !.curr_chapter = c.curr_chapter - c.curr_book.chapters,
                        !.err = "IndexError"]
         ELSE AdvanceLoop(m, [c EXCEPT
                        !.b = c.b + 1,
                        !.curr_chapter = c.curr_chapter - c.curr_book.chapters,
                        !.curr_book = m[c.b + 2]])
    ELSE c

\* total_chapter_count of process_meta, lines 223-229
RECURSIVE SumChapters(_)
SumChapters(m) == IF Len(m) = 0 THEN 0 ELSE Head(m).chapters + SumChapters(Tail(m))

\* process_meta, lines 222-238, up to the call of generate_plan: the total is
\* the sum of the books' chapters, and total / duration is computed first.
ProcessMeta ==
    /\ pc = "process_meta"
    /\ chapters' = SumChapters(meta)
    /\ IF duration = 0
       THEN /\ err' = "ZeroDivisionError"
            /\ pc' = "error"
       ELSE /\ err' = err
            /\ pc' = "generate_plan"
    /\ UNCHANGED <<meta, duration, write, chapters_per_day, opened, csvf, b,
                   curr_book, curr_chapter, curr_day, i, day_readings, calls,
                   plan_csv>>

\* generate_plan, lines 166-170: only ValueError is caught.
PlanQuotas ==
    /\ pc = "generate_plan"
    /\ LET r == split(chapters, duration) IN
         IF r.err = "ValueError"
         THEN /\ chapters_per_day' = Fallback(chapters, duration)
              /\ err' = err
              /\ pc' = "open"
         ELSE IF r.err # "none"
         THEN /\ chapters_per_day' = chapters_per_day
              /\ err' = r.err
              /\ pc' = "error"
         ELSE /\ chapters_per_day' = r.out
              /\ err' = err
              /\ pc' = "open"
    /\ UNCHANGED <<meta, duration, chapters, write, opened, csvf, b, curr_book,
                   curr_chapter, curr_day, i, day_readings, calls, plan_csv>>

\* generate_plan, lines 173-185: the sink is created, then meta[0] is read.
OpenOutput ==
    /\ pc = "open"
    /\ opened' = TRUE
    /\ b' = 0
    /\ curr_day' = 0
    /\ IF Len(meta) = 0
       THEN /\ err' = "IndexError"
            /\ pc' = "error"
            /\ UNCHANGED <<curr_book, curr_chapter>>
       ELSE /\ err' = err
            /\ curr_book' = meta[1]
            /\ curr_chapter' = 1
            /\ pc' = IF Len(chapters_per_day) = 0 THEN "finish" ELSE "render"
    /\ UNCHANGED <<meta, duration, chapters, write, chapters_per_day, csvf, i,
                   day_readings, calls, plan_csv>>

\* generate_plan, lines 187-188: the day's text is computed and its row written.
RenderDay ==
    /\ pc = "render"
    /\ LET r == get_day_reading_text(meta, b, curr_chapter, chapters_per_day[i + 1]) IN
         IF r.err # "none"
         THEN /\ err' = r.err
              /\ pc' = "error"
              /\ UNCHANGED <<day_readings, calls, csvf>>
         ELSE /\ err' = err
              /\ day_readings' = r.text
              /\ calls' = r.calls
              /\ csvf' = Append(csvf, [date |-> curr_day, text |-> r.text])
              /\ pc' = "advance"
    /\ UNCHANGED <<meta, duration, chapters, write, chapters_per_day, opened, b,
                   curr_book, curr_chapter, curr_day, i, plan_csv>>

\* generate_plan, lines 190-196, and the step of the for loop.
AdvanceCursor ==
    /\ pc = "advance"
    /\ IF i # Len(chapters_per_day) - 1
       THEN LET c == AdvanceLoop(meta,
                        [b |-> b, curr_book |-> curr_book, err |-> "none",
                         curr_chapter |-> curr_chapter + chapters_per_day[i + 1]])
            IN  /\ curr_day' = curr_day + 1
                /\ b' = c.b
                /\ curr_book' = c.curr_book
                /\ curr_chapter' = c.curr_chapter
                /\ IF c.err # "none"
                   THEN /\ err' = c.err
                        /\ pc' = "error"
                        /\ i' = i
                   ELSE /\ err' = err
                        /\ pc' = "render"
                        /\ i' = i + 1
       ELSE /\ pc' = "finish"
            /\ UNCHANGED <<b, curr_book, curr_chapter, curr_day, i, err>>
    /\ UNCHANGED <<meta, duration, chapters, write, chapters_per_day, opened,
                   csvf, day_readings, calls, plan_csv>>

\* generate_plan, lines 198-206: the return value is a fixed message when the
\* plan went to the file, the rows read back from the buffer otherwise.
Finish ==
    /\ pc = "finish"
    /\ plan_csv' = IF write THEN [message |-> "Written to file", rows |-> <<>>]
                   ELSE [message |-> "", rows |-> csvf]
    /\ pc' = "done"
    /\ UNCHANGED <<meta, duration, chapters, write, chapters_per_day, opened,
                   csvf, b, curr_book, curr_chapter, curr_day, i, day_readings,
                   calls, err>>

----------------------------------------------------------------------------
(* Spec: process_meta and generate_plan on every input within the bounds.  *)
(* process_meta passes the sum of the books' chapters as the total; a      *)
(* direct call of generate_plan passes any total.                          *)

Init ==
    /\ pc \in {"process_meta", "generate_plan"}
    /\ meta \in Metas(MaxUnits)
    /\ duration \in (-MaxNeg)..MaxDuration
    /\ write \in BOOLEAN
    /\ chapters \in IF pc = "process_meta" THEN {0} ELSE (-MaxNeg)..MaxChapters
    /\ chapters_per_day = <<>>
    /\ Unset

Next ==
    \/ ProcessMeta
    \/ PlanQuotas
    \/ OpenOutput
    \/ RenderDay
    \/ AdvanceCursor
    \/ Finish

Spec == Init /\ [][Next]_vars

----------------------------------------------------------------------------
(* SpecRender: lines 172-206 of generate_plan for every list of books and  *)
(* every list of positive quotas with the same total, which includes every *)
(* list that lines 166-170 produce for a consistent total.                 *)

InitRender ==
    /\ pc = "open"
    /\ meta \in Metas(MaxRenderUnits) \ {<<>>}
    /\ write = FALSE
    /\ chapters = SumChapters(meta)
    /\ chapters_per_day \in Compositions(chapters)
    /\ duration = Len(chapters_per_day)
    /\ Unset

NextRender ==
    \/ OpenOutput
    \/ RenderDay
    \/ AdvanceCursor
    \/ Finish

SpecRender == InitRender /\ [][NextRender]_vars

----------------------------------------------------------------------------
(* SpecSplit: split applied to every (x, n) within the bounds. *)

InitSplit ==
    /\ pc = "split"
    /\ meta = <<>>
    /\ write = FALSE
    /\ chapters \in (-MaxNeg)..MaxX
    /\ duration \in (-MaxNeg)..MaxN
    /\ chapters_per_day = <<>>
    /\ Unset

ApplySplit ==
    /\ pc = "split"
    /\ LET r == split(chapters, duration) IN
         /\ chapters_per_day' = r.out
         /\ err' = r.err
         /\ pc' = IF r.err = "none" THEN "returned" ELSE "error"
    /\ UNCHANGED <<meta, duration, chapters, write, opened, csvf, b, curr_book,
                   curr_chapter, curr_day, i, day_readings, calls, plan_csv>>

NextSplit == ApplySplit

SpecSplit == InitSplit /\ [][NextSplit]_vars

----------------------------------------------------------------------------
(* What the properties below are stated with. *)

\* the string a text denotes
RECURSIVE Str(_)
Str(t) == IF Len(t) = 0 THEN "" ELSE Head(t) \o Str(Tail(t))

\* chapters of the first k books
Before(m, k) == SumChapters(SubSeq(m, 1, k))

\* the k-th chapter of the whole book list as <<book index, chapter>>
Loc(m, g) ==
    LET k == CHOOSE k \in 0..(Len(m) - 1) : Before(m, k) < g /\ g <= Before(m, k + 1)
    IN  <<k, g - Before(m, k)>>

\* the g-th to the (g + q - 1)-th chapter of the whole book list
Stretch(m, g, q) == [j \in 1..q |-> Loc(m, g + j - 1)]

\* the number a piece of text spells, -1 if none
NumberOf(m, piece) ==
    IF \E v \in 0..SumChapters(m) : ToString(v) = piece
    THEN CHOOSE v \in 0..SumChapters(m) : ToString(v) = piece
    ELSE -1

\* the index of the book a piece of text names
BookOf(m, piece) == CHOOSE k \in 0..(Len(m) - 1) : m[k + 1].name = piece

\* the chapters a text denotes, in reading order, read back from its pieces:
\* name " " first [ "-" last ] [ "; " more ]
RECURSIVE Units(_, _)
Units(m, t) ==
    IF Len(t) < 3 THEN <<>>
    ELSE LET ranged == Len(t) >= 5 /\ t[4] = "-"
             first == NumberOf(m, t[3])
             last == IF ranged THEN NumberOf(m, t[5]) ELSE first
             used == IF ranged THEN 5 ELSE 3
             more == IF Len(t) > used /\ t[used + 1] = "; "
                     THEN SubSeq(t, used + 2, Len(t)) ELSE <<>>
         IN  [j \in 1..(last - first + 1) |-> <<BookOf(m, t[1]), first + j - 1>>]
             \o Units(m, more)

\* the cursor as a position in the whole book list: the chapters of the books
\* before the current one plus the position in the current one
CursorPosition == Before(meta, b) + curr_chapter

\* the quotas' sum is the books' total capacity, and both are proper
Consistent == /\ Len(meta) > 0
              /\ Len(chapters_per_day) > 0
              /\ \A d \in 1..Len(chapters_per_day) : chapters_per_day[d] >= 1
              /\ Sum(chapters_per_day) = SumChapters(meta)

\* the first chapter of day d, counted in the whole book list
DayStart(d) == Sum(SubSeq(chapters_per_day, 1, d - 1)) + 1

Divides(d, v) == v % d = 0

\* the greatest common divisor of two positive integers, by its definition
GreatestCommonDivisor(u, v) ==
    CHOOSE d \in 1..u : /\ Divides(d, u) /\ Divides(d, v)
                        /\ \A e \in 1..u : Divides(e, u) /\ Divides(e, v) => e <= d

Min(u, v) == IF u <= v THEN u ELSE v

\* all of one value, then all of another
Grouped(s) ==
    \E k \in 0..Len(s) :
        /\ \A p \in 1..k : s[p] = s[1]
        /\ \A p \in (k + 1)..Len(s) : s[p] = s[Len(s)]

\* the interleaved sequence for x = total, n = parts with x % n # 0: position
\* k lies at offset (k - 1) % (lo + hi) of its block; the first 2 * min(lo, hi)
\* offsets alternate small, large; the others hold the size left over
Interleaved(x, n) ==
    LET r == x % n
        base == x \div n
        g == GreatestCommonDivisor(r, n - r)
        hi == r \div g
        lo == (n - r) \div g
    IN  [k \in 1..n |->
            LET off == (k - 1) % (lo + hi) IN
            IF off < 2 * Min(lo, hi)
            THEN (IF off % 2 = 0 THEN base ELSE base + 1)
            ELSE (IF hi > lo THEN base + 1 ELSE base)]

\* the length of one block of Interleaved(x, n)
BlockLen(x, n) == n \div GreatestCommonDivisor(x % n, n - (x % n))

SplitReturned == pc = "returned" /\ chapters >= duration /\ duration >= 1

----------------------------------------------------------------------------
(* The properties. *)

\* C1: for total >= parts >= 1, split returns, and the parts sum to total,
\* in the divisible branch and in the remainder branch alike.
C1_Conservation ==
    (pc # "split" /\ chapters >= duration /\ duration >= 1)
        => /\ pc = "returned"
           /\ Sum(chapters_per_day) = chapters

\* a remainder-branch result of more than one block
C1_Witness ==
    /\ SplitReturned
    /\ chapters % duration # 0
    /\ Len(chapters_per_day) > BlockLen(chapters, duration)
    /\ Sum(chapters_per_day) = chapters

\* C2: for total >= parts >= 1, there are `parts` elements, each is
\* floor(total / parts) or that plus one, and exactly total % parts of them
\* are the larger.
C2_Bounds ==
    SplitReturned =>
        LET base == chapters \div duration
            large == {k \in 1..Len(chapters_per_day) : chapters_per_day[k] = base + 1}
            small == {k \in 1..Len(chapters_per_day) : chapters_per_day[k] = base}
        IN  /\ Len(chapters_per_day) = duration
            /\ large \cup small = 1..duration
            /\ Cardinality(large) = chapters % duration
            /\ Cardinality(small) = duration - (chapters % duration)

\* a result with more small parts than large ones, and at least two large
C2_Witness ==
    /\ SplitReturned
    /\ chapters % duration >= 2
    /\ duration - (chapters % duration) > chapters % duration
    /\ Len(chapters_per_day) = duration

\* C3: for total >= parts >= 1 with a remainder, the result is g copies of
\* the block "min(lo, hi) pairs (base, base + 1), then |hi - lo| of the size
\* left over"; it is grouped (all of one size, then all of the other) only if
\* the block is.
C3_Interleave ==
    (SplitReturned /\ chapters % duration # 0) =>
        /\ chapters_per_day = Interleaved(chapters, duration)
        /\ Grouped(chapters_per_day)
              => Grouped(SubSeq(chapters_per_day, 1, BlockLen(chapters, duration)))

\* two copies of a block of one pair and two more small parts, not grouped
C3_Witness ==
    /\ SplitReturned
    /\ chapters = 10
    /\ duration = 8
    /\ chapters_per_day = <<1, 2, 1, 1, 1, 2, 1, 1>>
    /\ ~Grouped(chapters_per_day)

\* C4: for books of positive capacity and positive quotas with the same
\* total, no error is raised, the run ends with one row per quota, and the
\* text of day d denotes exactly the q_d chapters that follow those of day
\* d - 1, day 1 starting at chapter 1 of the first book.
C4_Coverage ==
    Consistent =>
        /\ pc # "error"
        /\ Len(csvf) <= Len(chapters_per_day)
        /\ pc = "done" => Len(csvf) = Len(chapters_per_day)
        /\ \A d \in 1..Len(csvf) :
              /\ csvf[d].date = d - 1
              /\ Units(meta, csvf[d].text)
                   = Stretch(meta, DayStart(d), chapters_per_day[d])

\* capacities 5, 3 and quotas 4, 2, 2
C4_Witness ==
    /\ pc = "done"
    /\ meta = MetaOf(<<5, 3>>)
    /\ chapters_per_day = <<4, 2, 2>>
    /\ Len(csvf) = 3
    /\ Str(csvf[1].text) = "Alpha 1-4"
    /\ Str(csvf[2].text) = "Alpha 5; Beta 1"
    /\ Str(csvf[3].text) = "Beta 2-3"

\* the plan of process_meta, or of a direct call with the books' total
PlanConsistent == /\ pc \notin {"process_meta", "generate_plan"}
                  /\ duration >= 1
                  /\ chapters >= 1
                  /\ chapters = SumChapters(meta)

\* C5 as claimed: when every day is rendered, the final cursor, as chapters
\* consumed, is the sum of the quotas. The cursor is read both ways: as the
\* position itself, and as the chapters before that position.
C5_FinalCursorIsTotal ==
    (PlanConsistent /\ pc = "done")
        => \/ CursorPosition = Sum(chapters_per_day)
           \/ CursorPosition - 1 = Sum(chapters_per_day)

\* C5 as amended: the run ends without an error, and the final cursor is the
\* first chapter of the last day: the chapters before it are the quotas of
\* all days but the last.
C5_FinalCursorIsLastDayStart ==
    PlanConsistent =>
        /\ pc # "error"
        /\ pc = "done" =>
              CursorPosition - 1 = Sum(chapters_per_day)
                                   - chapters_per_day[Len(chapters_per_day)]

\* a finished plan of several days whose cursor crossed into a later book
\* more than one chapter deep
C5_Witness ==
    /\ PlanConsistent
    /\ pc = "done"
    /\ Len(chapters_per_day) >= 2
    /\ b >= 1
    /\ curr_chapter >= 2
    /\ CursorPosition - 1 < Sum(chapters_per_day)

\* C6: when the day ends inside the current book, its last chapter included,
\* the text is one segment of that book, made without a recursive call:
\* "<name> <p>" for one chapter, "<name> <p>-<p + remaining - 1>" otherwise.
C6_WithinBook ==
    (pc = "advance"
     /\ 1 <= curr_chapter /\ curr_chapter <= curr_book.chapters
     /\ chapters_per_day[i + 1] >= 1
     /\ curr_chapter + chapters_per_day[i + 1] - 1 <= curr_book.chapters)
        => /\ calls = 0
           /\ csvf[Len(csvf)].text = day_readings
           /\ Str(day_readings) =
                 IF chapters_per_day[i + 1] = 1
                 THEN curr_book.name \o " " \o ToString(curr_chapter)
                 ELSE curr_book.name \o " " \o ToString(curr_chapter) \o "-"
                      \o ToString(curr_chapter + chapters_per_day[i + 1] - 1)
           /\ Len(day_readings) = IF chapters_per_day[i + 1] = 1 THEN 3 ELSE 5

\* a day of several chapters that ends on the last chapter of a book that
\* is not the last book
C6_Witness ==
    /\ pc = "advance"
    /\ chapters_per_day[i + 1] > 1
    /\ curr_chapter + chapters_per_day[i + 1] - 1 = curr_book.chapters
    /\ b + 1 < Len(meta)
    /\ calls = 0
    /\ Len(day_readings) = 5

\* C7: for 1 <= total < parts, split raises instead of returning quotas, and
\* generate_plan goes on with `total` days of one chapter each; with the
\* books' total it renders them all, day d reading the d-th chapter.
C7_Fallback ==
    (pc \notin {"process_meta", "generate_plan"}
     /\ 1 <= chapters /\ chapters < duration)
        => /\ split(chapters, duration) = [err |-> "ValueError", out |-> <<>>]
           /\ chapters_per_day = [d \in 1..chapters |-> 1]
           /\ chapters = SumChapters(meta) =>
                 /\ pc # "error"
                 /\ pc = "done" => Len(csvf) = chapters
                 /\ \A d \in 1..Len(csvf) :
                       Units(meta, csvf[d].text) = <<Loc(meta, d)>>

\* a finished fallback plan over two books
C7_Witness ==
    /\ pc = "done"
    /\ 2 <= chapters /\ chapters < duration
    /\ chapters = SumChapters(meta)
    /\ Len(meta) = 2
    /\ Len(csvf) = chapters
    /\ Len(chapters_per_day) = chapters

\* C8: when the total exceeds the books' capacity the run ends in an error,
\* and no row was written before it.
C8_FailFast ==
    (pc \notin {"process_meta", "generate_plan"}
     /\ duration >= 1
     /\ chapters > SumChapters(meta))
        => /\ pc # "done"
           /\ pc = "error" => csvf = <<>>

\* C9: no books, no days, or a total that is not positive: the run is
\* rejected with an error before quotas are returned and before the output
\* is opened.
C9_DegenerateRejected ==
    (\/ Len(meta) = 0
     \/ duration <= 0
     \/ (pc # "process_meta" /\ chapters <= 0))
        => /\ pc \in {"process_meta", "generate_plan", "error"}
           /\ ~opened
           /\ csvf = <<>>

\* C10, at the moment a day's text is computed: the cursor is inside the
\* book list and inside its book, and for the first day it is (0, 1).
C10_CursorInBounds ==
    (Consistent /\ pc = "render")
        => /\ 0 <= b /\ b < Len(meta)
           /\ curr_book = meta[b + 1]
           /\ 1 <= curr_chapter /\ curr_chapter <= meta[b + 1].chapters
           /\ CursorPosition = DayStart(i + 1)
           /\ i = 0 => (b = 0 /\ curr_chapter = 1)

\* C10, step by step: computing the text leaves the cursor alone, going to
\* the next day moves it by the quota of the day just rendered, the last day
\* leaves it alone, and it never moves backward.
C10_CursorStep ==
    /\ pc = "render" => (b' = b /\ curr_chapter' = curr_chapter)
    /\ (pc = "advance" /\ pc' = "render")
          => /\ i' = i + 1
             /\ CursorPosition' = CursorPosition + chapters_per_day[i + 1]
    /\ (pc = "advance" /\ pc' # "render")
          => (b' = b /\ curr_chapter' = curr_chapter)
    /\ b' >= b
    /\ CursorPosition' >= CursorPosition

\* C10: for books of positive capacity and positive quotas with the same
\* total, the cursor is in bounds whenever a day's text is computed, starts
\* at (0, 1), moves only between days, by the day's quota, never backward.
C10_Cursor == [](C10_CursorInBounds) /\ [][C10_CursorStep]_vars

\* a later day that starts inside a later book, past its first chapter
C10_Witness ==
    /\ pc = "render"
    /\ i >= 2
    /\ b >= 1
    /\ curr_chapter >= 2
    /\ curr_chapter <= meta[b + 1].chapters

====
